---- MODULE Spec2Model ----
(***************************************************************************)
(* CC Version Guard: the protection and version-switching commands of the  *)
(* Tauri backend (src-tauri/src/commands/protector.rs, switcher.rs,        *)
(* process.rs) as a state machine over the files they touch.               *)
(*                                                                         *)
(* File contents are sequences of tokens.  A token is a piece of text that *)
(* the code never looks inside: the key "last_version", the text           *)
(* "=1.0.0.0", the line feed, the carriage return, a blank, the text       *)
(* "_bak=1", and a byte sequence that is not valid UTF-8.  The string      *)
(* functions of the code (lines, trim, starts_with, contains, join) are    *)
(* computed on these sequences.                                            *)
(*                                                                         *)
(* A log line is a tuple: the format string followed by its arguments.     *)
(***************************************************************************)
EXTENDS Integers, Sequences, FiniteSets, TLC

VARIABLES localAppData, processes, disk, pre, last

vars == <<localAppData, processes, disk, pre, last>>

-----------------------------------------------------------------------------
(* Bounds of the fixtures and inputs.                                      *)

MaxLen == 3

MaxPaths == 3

MaxFullPaths == 1

-----------------------------------------------------------------------------
(* Text.                                                                   *)

KEY == "last_version"

EQ_SENTINEL == "=1.0.0.0"

LF == "\n"

CR == "\r"

SP == " "

\* Text of a configuration line that is not about the key: "_bak=1" is the
\* line of the key _bak, "last_version_bak=1" the line of the key
\* last_version_bak.
BAK_TEXT == "_bak=1"

INVALID_UTF8 == "<invalid utf-8>"

\* "last_version=1.0.0.0", the line lock_configuration writes and the
\* substring check_protection_status looks for.
SENTINEL_LINE == <<KEY, EQ_SENTINEL>>

\* char::is_whitespace on the tokens of the model (str::trim).
Whitespace == {SP, CR, LF}

RECURSIVE TrimStart(_)
TrimStart(s) ==
    IF s # <<>> /\ Head(s) \in Whitespace THEN TrimStart(Tail(s)) ELSE s

RECURSIVE TrimEnd(_)
TrimEnd(s) ==
    IF s # <<>> /\ s[Len(s)] \in Whitespace
    THEN TrimEnd(SubSeq(s, 1, Len(s) - 1))
    ELSE s

\* str::trim
Trim(s) == TrimEnd(TrimStart(s))

\* str::starts_with
StartsWith(s, p) == Len(s) >= Len(p) /\ SubSeq(s, 1, Len(p)) = p

\* str::contains
Contains(s, p) ==
    \E i \in 1..(Len(s) - Len(p) + 1) : SubSeq(s, i, i + Len(p) - 1) = p

\* Index of the first line feed of s, 0 if there is none.
FirstLF(s) ==
    IF \E i \in 1..Len(s) : s[i] = LF
    THEN CHOOSE i \in 1..Len(s) : s[i] = LF /\ \A j \in 1..(i - 1) : s[j] # LF
    ELSE 0

\* A line that ended in a line feed loses one carriage return before it.
StripCR(s) ==
    IF s # <<>> /\ s[Len(s)] = CR THEN SubSeq(s, 1, Len(s) - 1) ELSE s

\* str::lines: split after every "\n"; a piece that ends in "\n" loses it and
\* then one "\r"; a last piece without "\n" is kept as it is; the empty string
\* has no lines.
RECURSIVE Lines(_)
Lines(s) ==
    IF s = <<>> THEN <<>>
    ELSE LET i == FirstLF(s)
         IN  IF i = 0 THEN <<s>>
             ELSE <<StripCR(SubSeq(s, 1, i - 1))>> \o Lines(SubSeq(s, i + 1, Len(s)))

\* [String]::join
RECURSIVE Join(_, _)
Join(ls, sep) ==
    IF ls = <<>> THEN <<>>
    ELSE IF Len(ls) = 1 THEN ls[1]
    ELSE ls[1] \o sep \o Join(Tail(ls), sep)

\* The line of the configuration file holds the key, as the code decides it.
IsKeyLine(line) == StartsWith(Trim(line), <<KEY>>)

-----------------------------------------------------------------------------
(* Files.  An entry of the file system is absent, a file or a directory; a *)
(* file has a content and the read-only attribute, a directory the         *)
(* attribute.  The metadata length of a directory is zero, as on Windows,  *)
(* the platform of the program (attrib, LOCALAPPDATA).                     *)

NoEntry == [kind |-> "none", ro |-> FALSE, content |-> <<>>]

File(content, ro) == [kind |-> "file", ro |-> ro, content |-> content]

Dir(ro) == [kind |-> "dir", ro |-> ro, content |-> <<>>]

\* Path::exists
Exists(e) == e.kind # "none"

\* fs::metadata(..).len() == 0
LenIsZero(e) == Len(e.content) = 0

\* fs::read_to_string: fails on a directory and on bytes that are not UTF-8.
ReadToString(e) ==
    IF e.kind = "file" /\ \A i \in 1..Len(e.content) : e.content[i] # INVALID_UTF8
    THEN [ok |-> TRUE, text |-> e.content]
    ELSE [ok |-> FALSE, text |-> <<>>]

\* fs::write: creates or truncates the file; fails on a directory and on a
\* read-only file.  The attribute of an existing file is kept.
FsWrite(e, content) ==
    IF e.kind = "dir" \/ (e.kind = "file" /\ e.ro)
    THEN [ok |-> FALSE, err |-> <<"Access is denied. (os error 5)">>, e |-> e]
    ELSE [ok |-> TRUE, err |-> <<>>, e |-> File(content, FALSE)]

\* fs::remove_file: fails when the path is absent, a directory or read-only.
RemoveFile(e) ==
    IF e.kind = "file" /\ ~e.ro
    THEN [ok |-> TRUE, err |-> <<>>, e |-> NoEntry]
    ELSE [ok |-> FALSE, err |-> <<"Access is denied. (os error 5)">>, e |-> e]

-----------------------------------------------------------------------------
(* protector.rs                                                            *)

\* The outcomes of Command::new("attrib").arg("+r").arg(path).output(): the
\* program ran and set the attribute, the program ran and did not set it (its
\* exit status is not read), the program could not be started.
AttribOutcomes == {"set", "noeffect", "spawnfail"}

\* unset_readonly_recursive on a file or directory entry: clears the
\* attribute where it is set; never fails.
unset_readonly_recursive(e) ==
    IF Exists(e) /\ e.ro THEN [e EXCEPT !.ro = FALSE] ELSE e

\* The first step of create_readonly: an existing entry loses the attribute
\* and is removed, a directory with remove_dir_all, a file with remove_file.
RemoveExisting(e) ==
    IF ~Exists(e) THEN [ok |-> TRUE, err |-> <<>>, e |-> e]
    ELSE IF e.kind = "dir" THEN [ok |-> TRUE, err |-> <<>>, e |-> NoEntry]
    ELSE RemoveFile(unset_readonly_recursive(e))

\* The second step: fs::write(path, ""), unless the first step failed.
WriteEmpty(r) == IF r.ok THEN FsWrite(r.e, <<>>) ELSE r

\* The third step: attrib +r, unless a step before failed.  Only a program
\* that could not be started is an error.
AttribPlusR(r, attrib) ==
    IF ~r.ok THEN r
    ELSE IF attrib = "spawnfail" THEN [ok |-> FALSE, err |-> <<"program not found">>, e |-> r.e]
    ELSE IF attrib = "set" THEN [r EXCEPT !.e.ro = TRUE]
    ELSE r

\* create_readonly(path); attrib is the outcome of the attrib command.
create_readonly(e, attrib) == AttribPlusR(WriteEmpty(RemoveExisting(e)), attrib)

\* The loop of lock_configuration: every key line becomes the sentinel line.
RECURSIVE LockLines(_)
LockLines(ls) ==
    IF ls = <<>> THEN <<>>
    ELSE <<IF IsKeyLine(Head(ls)) THEN SENTINEL_LINE ELSE Head(ls)>>
         \o LockLines(Tail(ls))

\* lock_configuration(apps_path) on the entry of configure.ini.
lock_configuration(cfg) ==
    LET content == IF Exists(cfg) THEN ReadToString(cfg).text ELSE <<>>
        ls == Lines(content)
        found == \E i \in 1..Len(ls) : IsKeyLine(ls[i])
        new_lines == IF found THEN LockLines(ls) ELSE LockLines(ls) \o <<SENTINEL_LINE>>
        written == FsWrite(cfg, Join(new_lines, <<LF>>))
    IN  [ok |-> written.ok, err |-> written.err, e |-> written.e]

\* The second half of create_dummy_files: create_dir_all of the download
\* directory and the blocker at update.exe; d is the disk so far.
CreateUpdateBlocker(d, u) ==
    [ok |-> u.ok, err |-> u.err, d |-> [d EXCEPT !.download = TRUE, !.upd = u.e]]

\* AfterProductInfo going on to update.exe whatever the first create_readonly
\* returned.
AfterProductInfo_Continue(d, p, a2) ==
    CreateUpdateBlocker([d EXCEPT !.pinfo = p.e], create_readonly(d.upd, a2))

\* create_dummy_files(capcut_path, apps_path) after its first create_readonly
\* returned p.
AfterProductInfo(d, p, a2) ==
    IF ~p.ok THEN [ok |-> FALSE, err |-> p.err, d |-> [d EXCEPT !.pinfo = p.e]]
    ELSE CreateUpdateBlocker([d EXCEPT !.pinfo = p.e], create_readonly(d.upd, a2))

\* create_dummy_files(capcut_path, apps_path) on the disk; a1 and a2 are the
\* outcomes of the two attrib commands.
create_dummy_files(d, a1, a2) == AfterProductInfo(d, create_readonly(d.pinfo, a1), a2)

\* The blocker half of apply_protection_with_options; d and logs are the disk
\* and the log after the configuration half, made what create_dummy_files
\* returns on d.
ApplyBlockers(d, logs, create_blockers, made) ==
    IF ~create_blockers
    THEN [d |-> d, success |-> TRUE, error |-> <<>>,
          logs |-> Append(logs, <<"Skipping blocker creation (disabled)">>)]
    ELSE IF ~made.ok
    THEN [d |-> made.d, success |-> FALSE, error |-> made.err,
          logs |-> Append(logs, <<"Creating blockers...">>)]
    ELSE [d |-> made.d, success |-> TRUE, error |-> <<>>,
          logs |-> logs \o <<<<"Creating blockers...">>, <<"[OK] Update blockers created">>>>]

\* apply_protection_with_options after the configuration half; locked is what
\* lock_configuration returns on d.cfg.
ApplyConfig(d, lock_config, create_blockers, a1, a2, locked) ==
    IF ~lock_config
    THEN ApplyBlockers(d, <<<<"Skipping config lock (disabled)">>>>, create_blockers,
                       create_dummy_files(d, a1, a2))
    ELSE IF ~locked.ok
    THEN [d |-> d, success |-> FALSE, error |-> locked.err,
          logs |-> <<<<"Modifying config...">>>>]
    ELSE ApplyBlockers([d EXCEPT !.cfg = locked.e],
                       <<<<"Modifying config...">>, <<"[OK] Configuration locked">>>>,
                       create_blockers,
                       create_dummy_files([d EXCEPT !.cfg = locked.e], a1, a2))

\* apply_protection_with_options without the test of LOCALAPPDATA.
apply_protection_with_options_NoEnv(env, d, lock_config, create_blockers, a1, a2) ==
    ApplyConfig(d, lock_config, create_blockers, a1, a2, lock_configuration(d.cfg))

\* apply_protection_with_options(lock_config, create_blockers) on the disk d;
\* env tells whether LOCALAPPDATA is set, a1 and a2 are the outcomes of the
\* attrib commands.
apply_protection_with_options(env, d, lock_config, create_blockers, a1, a2) ==
    IF ~env
    THEN [d |-> d, success |-> FALSE, error |-> <<"Failed to get LOCALAPPDATA">>,
          logs |-> <<>>]
    ELSE ApplyConfig(d, lock_config, create_blockers, a1, a2, lock_configuration(d.cfg))

\* IsBlocker without the test of the size.
IsBlocker_NoSize(e) == Exists(e) /\ e.ro

\* The test check_protection_status applies to each blocker path.
IsBlocker(e) == Exists(e) /\ LenIsZero(e) /\ e.ro

\* check_protection_status() on the disk d.
check_protection_status(env, d) ==
    LET blockers_exist == IsBlocker(d.pinfo)
        update_blocked == IsBlocker(d.upd)
        read == ReadToString(d.cfg)
        config_locked == Exists(d.cfg) /\ read.ok /\ Contains(read.text, SENTINEL_LINE)
    IN  IF ~env
        THEN [is_protected |-> FALSE, config_locked |-> FALSE, blockers_exist |-> FALSE]
        ELSE [is_protected |-> blockers_exist \/ update_blocked \/ config_locked,
              config_locked |-> config_locked,
              blockers_exist |-> blockers_exist \/ update_blocked]

\* The filter of remove_protection: the lines that do not hold the key.
RECURSIVE DropKeyLines(_)
DropKeyLines(ls) ==
    IF ls = <<>> THEN <<>>
    ELSE (IF IsKeyLine(Head(ls)) THEN <<>> ELSE <<Head(ls)>>) \o DropKeyLines(Tail(ls))

\* RemoveBlocker removing nothing but a blocker, an empty read-only file.
RemoveBlocker_OnlyBlockers(e, msgs) ==
    LET removed == RemoveFile(unset_readonly_recursive(e))
    IN  IF ~IsBlocker(e) THEN [e |-> e, logs |-> <<>>]
        ELSE [e |-> removed.e,
              logs |-> <<<<msgs[1]>>,
                         IF removed.ok THEN <<msgs[2]>> ELSE <<msgs[3]>> \o removed.err>>]

\* One of the two blocker removals of remove_protection; msgs are its three
\* log lines: the announcement, the success line and the failure line.
RemoveBlocker(e, msgs) ==
    LET removed == RemoveFile(unset_readonly_recursive(e))
    IN  IF ~Exists(e) THEN [e |-> e, logs |-> <<>>]
        ELSE [e |-> removed.e,
              logs |-> <<<<msgs[1]>>,
                         IF removed.ok THEN <<msgs[2]>> ELSE <<msgs[3]>> \o removed.err>>]

\* The reset of configure.ini in remove_protection.
ResetConfig(cfg) ==
    LET read == ReadToString(cfg)
        written == FsWrite(cfg, Join(DropKeyLines(Lines(read.text)), <<LF>>))
    IN  IF ~Exists(cfg) THEN [e |-> cfg, logs |-> <<>>]
        ELSE IF ~read.ok THEN [e |-> cfg, logs |-> <<<<"Resetting configure.ini...">>>>]
        ELSE [e |-> written.e,
              logs |-> <<<<"Resetting configure.ini...">>,
                         IF written.ok THEN <<"[OK] configure.ini reset">>
                         ELSE <<"[!] Could not reset configure.ini: {}">> \o written.err>>]

\* remove_protection returning an error when ProductInfo.xml cannot be removed.
remove_protection_Abort(env, d) ==
    LET p == RemoveBlocker(d.pinfo, <<"Removing ProductInfo.xml blocker...",
                                      "[OK] ProductInfo.xml blocker removed",
                                      "[!] Could not remove ProductInfo.xml: {}">>)
        u == RemoveBlocker(d.upd, <<"Removing update.exe blocker...",
                                    "[OK] update.exe blocker removed",
                                    "[!] Could not remove update.exe: {}">>)
        c == ResetConfig(d.cfg)
    IN  IF ~env
        THEN [d |-> d, success |-> FALSE, error |-> <<"Failed to get LOCALAPPDATA">>,
              logs |-> <<>>]
        ELSE IF Exists(p.e)
        THEN [d |-> [d EXCEPT !.pinfo = p.e], success |-> FALSE,
              error |-> <<"Could not remove ProductInfo.xml">>, logs |-> p.logs]
        ELSE [d |-> [d EXCEPT !.pinfo = p.e, !.upd = u.e, !.cfg = c.e],
              success |-> TRUE, error |-> <<>>,
              logs |-> p.logs \o u.logs \o c.logs
                       \o <<<<"[OK] Protection removed - CapCut can now auto-update">>>>]

\* remove_protection() on the disk d.
remove_protection(env, d) ==
    LET p == RemoveBlocker(d.pinfo, <<"Removing ProductInfo.xml blocker...",
                                      "[OK] ProductInfo.xml blocker removed",
                                      "[!] Could not remove ProductInfo.xml: {}">>)
        u == RemoveBlocker(d.upd, <<"Removing update.exe blocker...",
                                    "[OK] update.exe blocker removed",
                                    "[!] Could not remove update.exe: {}">>)
        c == ResetConfig(d.cfg)
    IN  IF ~env
        THEN [d |-> d, success |-> FALSE, error |-> <<"Failed to get LOCALAPPDATA">>,
              logs |-> <<>>]
        ELSE [d |-> [d EXCEPT !.pinfo = p.e, !.upd = u.e, !.cfg = c.e],
              success |-> TRUE, error |-> <<>>,
              logs |-> p.logs \o u.logs \o c.logs
                       \o <<<<"[OK] Protection removed - CapCut can now auto-update">>>>]


-----------------------------------------------------------------------------
(* Version directories.  A path is the sequence of its components.  A      *)
(* directory is absent or present; a present one may be read-only and may  *)
(* be locked (a file in it is open in another process, so that it cannot   *)
(* be deleted).                                                            *)

VersionPaths == {<<"Apps", "1.0.0.0">>, <<"Apps", "1.0.0.05">>, <<"Apps", "3.1.0.100">>}

AbsentDir == [exists |-> FALSE, ro |-> FALSE, locked |-> FALSE]

\* Path::file_name().unwrap_or_default()
FileName(path) == IF path = <<>> THEN "" ELSE path[Len(path)]

\* unset_readonly_recursive on a version directory.
UnsetReadonlyDir(v) == IF v.exists THEN [v EXCEPT !.ro = FALSE] ELSE v

\* fs::remove_dir_all: fails on an absent path and on a locked directory.
RemoveDirAll(v) ==
    IF ~v.exists THEN [ok |-> FALSE, err |-> "The system cannot find the path specified.", v |-> v]
    ELSE IF v.locked THEN [ok |-> FALSE, err |-> "The process cannot access the file.", v |-> v]
    ELSE [ok |-> TRUE, err |-> "", v |-> AbsentDir]

\* DeleteLoop going on to the next path after a failed deletion.
RECURSIVE DeleteLoop_Continue(_, _, _, _)
DeleteLoop_Continue(dirs, paths, i, logs) ==
    IF i > Len(paths)
    THEN [dirs |-> dirs, success |-> FALSE, error |-> <<"Failed to delete">>, logs |-> logs]
    ELSE LET removed == RemoveDirAll(UnsetReadonlyDir(dirs[paths[i]]))
         IN  DeleteLoop_Continue([dirs EXCEPT ![paths[i]] = removed.v], paths, i + 1,
                                 Append(logs, <<"Deleting: {}", FileName(paths[i])>>))

\* The loop of delete_versions from the i-th path on; dirs and logs are the
\* directories and the log so far.
RECURSIVE DeleteLoop(_, _, _, _)
DeleteLoop(dirs, paths, i, logs) ==
    IF i > Len(paths)
    THEN [dirs |-> dirs, success |-> TRUE, error |-> <<>>, logs |-> logs]
    ELSE LET path == paths[i]
             name == FileName(path)
             logs1 == Append(logs, <<"Deleting: {}", name>>)
             removed == RemoveDirAll(UnsetReadonlyDir(dirs[path]))
             dirs1 == [dirs EXCEPT ![path] = removed.v]
         IN  IF ~removed.ok
             THEN [dirs |-> dirs1, success |-> FALSE,
                   error |-> <<"Failed to delete {}: {}", name, removed.err>>,
                   logs |-> logs1]
             ELSE DeleteLoop(dirs1, paths, i + 1, logs1)

\* delete_versions without the line for the empty list.
delete_versions_CountOnly(d, paths) ==
    LET r == DeleteLoop(d.dirs, paths, 1, <<>>)
    IN  [d |-> [d EXCEPT !.dirs = r.dirs],
         success |-> r.success,
         error |-> r.error,
         logs |-> IF ~r.success THEN r.logs
                  ELSE Append(r.logs, <<"[OK] Deleted {} version(s)", ToString(Len(paths))>>)]

\* delete_versions(paths) on the disk d.
delete_versions(d, paths) ==
    LET r == DeleteLoop(d.dirs, paths, 1, <<>>)
    IN  [d |-> [d EXCEPT !.dirs = r.dirs],
         success |-> r.success,
         error |-> r.error,
         logs |-> IF ~r.success THEN r.logs
                  ELSE IF paths = <<>> THEN Append(r.logs, <<"[OK] No versions to delete">>)
                  ELSE Append(r.logs, <<"[OK] Deleted {} version(s)", ToString(Len(paths))>>)]

-----------------------------------------------------------------------------
(* process.rs                                                              *)

\* is_capcut_running() on the set of the names of the running processes.
is_capcut_running(procs) == "CapCut" \in procs \/ "CapCut.exe" \in procs

-----------------------------------------------------------------------------
(* The collaborators of commands/cleaner.rs and commands/scanner.rs.       *)

\* cleaner::clean_cache(): empties the cache directories and reports what it
\* did in its log; outcome is whether it managed to.
clean_cache(d, outcome) ==
    IF outcome = "ok"
    THEN [d |-> [d EXCEPT !.cache = FALSE], success |-> TRUE,
          logs |-> <<<<"[OK] Cache cleaned">>>>]
    ELSE [d |-> d, success |-> FALSE, logs |-> <<<<"[!] Failed to clean cache">>>>]

\* scanner::get_capcut_root_path(): the installation root under LOCALAPPDATA,
\* None when it does not resolve.
get_capcut_root_path(env) == env

\* scanner::get_capcut_apps_path(): the Apps directory of the root.
get_capcut_apps_path(env) == env

-----------------------------------------------------------------------------
(* protector.rs: the full protection sequence.                             *)

\* ProtectStage returning the log of the protect stage alone.
ProtectStage_DropLogs(d, logs, stages, params, protect_result) ==
    IF ~(params.lock_config \/ params.create_blockers)
    THEN [d |-> d, success |-> TRUE, error |-> <<>>,
          logs |-> Append(logs, <<"Skipping protection (all options disabled)">>),
          stages |-> stages]
    ELSE [d |-> protect_result.d, success |-> protect_result.success,
          error |-> protect_result.error,
          logs |-> IF protect_result.success THEN logs \o protect_result.logs
                   ELSE protect_result.logs,
          stages |-> Append(stages, "protect")]

\* The protect stage of run_full_protection; d, logs and stages are the disk,
\* the log and the stages so far, protect_result what
\* apply_protection_with_options returns on d.
ProtectStage(d, logs, stages, params, protect_result) ==
    IF ~(params.lock_config \/ params.create_blockers)
    THEN [d |-> d, success |-> TRUE, error |-> <<>>,
          logs |-> Append(logs, <<"Skipping protection (all options disabled)">>),
          stages |-> stages]
    ELSE [d |-> protect_result.d, success |-> protect_result.success,
          error |-> protect_result.error, logs |-> logs \o protect_result.logs,
          stages |-> Append(stages, "protect")]

\* The cache stage and what follows it; cache_result is what clean_cache
\* returns on d.
CacheStage(env, d, logs, params, a1, a2, cache_result) ==
    IF params.clean_cache
    THEN ProtectStage(cache_result.d,
                      logs \o <<<<"Cleaning cache directories...">>>> \o cache_result.logs,
                      <<"check", "delete", "cache">>, params,
                      apply_protection_with_options(env, cache_result.d, params.lock_config,
                                                    params.create_blockers, a1, a2))
    ELSE ProtectStage(d, Append(logs, <<"Skipping cache cleaning (disabled)">>),
                      <<"check", "delete">>, params,
                      apply_protection_with_options(env, d, params.lock_config,
                                                    params.create_blockers, a1, a2))

\* DeleteStage going on after a failed deletion.
DeleteStage_NoAbort(env, logs, params, cache_outcome, a1, a2, delete_result) ==
    CacheStage(env, delete_result.d, logs \o delete_result.logs, params, a1, a2,
               clean_cache(delete_result.d, cache_outcome))

\* The delete stage and what follows it; delete_result is what delete_versions
\* returned.
DeleteStage(env, logs, params, cache_outcome, a1, a2, delete_result) ==
    IF ~delete_result.success
    THEN [d |-> delete_result.d, success |-> FALSE, error |-> delete_result.error,
          logs |-> logs \o delete_result.logs, stages |-> <<"check", "delete">>]
    ELSE CacheStage(env, delete_result.d, logs \o delete_result.logs, params, a1, a2,
                    clean_cache(delete_result.d, cache_outcome))

\* run_full_protection without the test of the running application.
run_full_protection_NoGate(env, procs, d, params, cache_outcome, a1, a2) ==
    DeleteStage(env, <<<<"Checking system state...">>, <<"[OK] No running instances">>>>,
                params, cache_outcome, a1, a2,
                delete_versions(d, params.versions_to_delete))

\* run_full_protection(params) on the disk d; stages lists the stages that
\* ran, in the order in which they ran.
run_full_protection(env, procs, d, params, cache_outcome, a1, a2) ==
    IF is_capcut_running(procs)
    THEN [d |-> d, success |-> FALSE,
          error |-> <<"CapCut is still running. Please close it.">>,
          logs |-> <<<<"Checking system state...">>>>, stages |-> <<"check">>]
    ELSE DeleteStage(env, <<<<"Checking system state...">>, <<"[OK] No running instances">>>>,
                     params, cache_outcome, a1, a2,
                     delete_versions(d, params.versions_to_delete))

-----------------------------------------------------------------------------
(* switcher.rs                                                             *)

\* "=" followed by the version name, in tokens: a name that begins with
\* 1.0.0.0 begins with the text of the sentinel.
EqVersion(version_name) ==
    IF version_name = "1.0.0.0" THEN <<EQ_SENTINEL>>
    ELSE IF version_name = "1.0.0.05" THEN <<EQ_SENTINEL, "5">>
    ELSE <<"=", version_name>>

\* ClearReadonly leaving the attribute as it is.
ClearReadonly_Keep(e) == e

\* The read-only attribute is cleared before the write where it is set.
ClearReadonly(e) == IF Exists(e) /\ e.ro THEN [e EXCEPT !.ro = FALSE] ELSE e

\* switch_version(target_path) on the disk d once the target is known to exist.
SwitchExisting(env, d, target_dir) ==
    LET logs0 == <<<<"Initiating switch to version at: {:?}">> \o target_dir>>
        version_name == IF target_dir = <<>> THEN "unknown" ELSE FileName(target_dir)
        logs1 == Append(logs0, <<"Detected version: {}", version_name>>)
        new_content == <<"<ProductInfo><InstallPath>">> \o target_dir
                       \o <<"CapCut.exe", "</InstallPath><Version>", version_name,
                            "</Version></ProductInfo>">>
        pwritten == FsWrite(ClearReadonly(d.pinfo), new_content)
        logs2 == IF ~get_capcut_root_path(env) THEN logs1
                 ELSE logs1 \o <<<<"Updating ProductInfo at: {:?}">>>>
                      \o (IF Exists(d.pinfo) /\ d.pinfo.ro
                          THEN <<<<"Removed Read-Only attribute from ProductInfo.xml">>>>
                          ELSE <<>>)
                      \o <<IF pwritten.ok THEN <<"[OK] Updated ProductInfo.xml">>
                           ELSE <<"[!] Failed to write ProductInfo.xml: {}">> \o pwritten.err>>
        d2 == IF get_capcut_root_path(env) THEN [d EXCEPT !.pinfo = pwritten.e] ELSE d
        config_content == <<"[Configure]", CR, LF, KEY>> \o EqVersion(version_name)
                          \o <<CR, LF>>
        cwritten == FsWrite(ClearReadonly(d.cfg), config_content)
        logs3 == IF ~get_capcut_apps_path(env) THEN logs2
                 ELSE logs2 \o <<<<"Updating configure.ini at: {:?}">>,
                                 IF cwritten.ok THEN <<"[OK] Updated configure.ini">>
                                 ELSE <<"[!] Failed to write configure.ini: {}">>
                                      \o cwritten.err>>
        d3 == IF get_capcut_apps_path(env) THEN [d2 EXCEPT !.cfg = cwritten.e] ELSE d2
    IN  [d |-> d3, success |-> TRUE,
         message |-> <<"Successfully switched to v{}", version_name>>,
         logs |-> logs3]

\* switch_version without the test of the target.
switch_version_NoCheck(env, d, target_dir) == SwitchExisting(env, d, target_dir)

\* switch_version reporting failure when one of its writes failed.
switch_version_FailOnWrite(env, d, target_dir) ==
    IF ~(target_dir \in DOMAIN d.dirs /\ d.dirs[target_dir].exists)
    THEN [d |-> d, success |-> FALSE, message |-> <<"Target version not found">>,
          logs |-> <<<<"Initiating switch to version at: {:?}">> \o target_dir,
                     <<"[!] Target directory does not exist">>>>]
    ELSE LET r == SwitchExisting(env, d, target_dir)
         IN  [r EXCEPT !.success =
                  \A i \in 1..Len(r.logs) :
                      r.logs[i][1] \notin {"[!] Failed to write ProductInfo.xml: {}",
                                           "[!] Failed to write configure.ini: {}"}]

\* target_dir.exists()
TargetExists(d, target_dir) == target_dir \in DOMAIN d.dirs /\ d.dirs[target_dir].exists

\* switch_version(target_path) on the disk d.
switch_version(env, d, target_dir) ==
    IF ~TargetExists(d, target_dir)
    THEN [d |-> d, success |-> FALSE, message |-> <<"Target version not found">>,
          logs |-> <<<<"Initiating switch to version at: {:?}">> \o target_dir,
                     <<"[!] Target directory does not exist">>>>]
    ELSE SwitchExisting(env, d, target_dir)

-----------------------------------------------------------------------------
(* State.                                                                  *)
(*   localAppData  whether the environment variable LOCALAPPDATA is set    *)
(*   processes     the names of the running processes                      *)
(*   disk          configure.ini (cfg), ProductInfo.xml (pinfo),           *)
(*                 User Data/Download/update.exe (upd), whether the        *)
(*                 directory User Data/Download exists (download), the     *)
(*                 version directories (dirs), whether the cache           *)
(*                 directories hold data (cache)                           *)
(*   pre           the disk before the last command                        *)
(*   last          the last command: its name, its inputs and what it      *)
(*                 returned                                                *)

\* The tokens of the configuration files of the fixtures.
Alphabet == {KEY, EQ_SENTINEL, BAK_TEXT, LF, CR}

\* The contents of at most MaxLen tokens.
Contents == UNION {[1..n -> Alphabet] : n \in 0..MaxLen}

\* The lists of at most MaxFullPaths version paths, the lists the full
\* sequence is given.
FullPathLists == UNION {[1..n -> VersionPaths] : n \in 0..MaxFullPaths}

\* The lists of at most MaxPaths version paths.
PathLists == UNION {[1..n -> VersionPaths] : n \in 0..MaxPaths}

\* The states of a blocker path: absent, an empty or non-empty file, a
\* directory, each with and without the read-only attribute.
EntryFixtures ==
    {NoEntry} \cup {File(c, ro) : c \in {<<>>, <<BAK_TEXT>>}, ro \in BOOLEAN}
              \cup {Dir(ro) : ro \in BOOLEAN}

\* The states of a version directory.
DirFixtures ==
    {AbsentDir} \cup {[exists |-> TRUE, ro |-> ro, locked |-> l] : ro, l \in BOOLEAN}

PlainDir == [exists |-> TRUE, ro |-> FALSE, locked |-> FALSE]

LockedDir == [exists |-> TRUE, ro |-> TRUE, locked |-> TRUE]

\* An installation with no configuration file and no blockers.
FreshDisk ==
    [cfg |-> NoEntry, pinfo |-> NoEntry, upd |-> NoEntry, download |-> FALSE,
     dirs |-> [p \in VersionPaths |-> PlainDir], cache |-> TRUE]

Started == [op |-> "init"]

\* A few states of configure.ini: absent, unlocked, locked and read-only, not
\* UTF-8.
ConfigFixtures ==
    {NoEntry, File(<<BAK_TEXT, LF, KEY, BAK_TEXT>>, FALSE), File(SENTINEL_LINE, TRUE),
     File(<<BAK_TEXT, LF, INVALID_UTF8>>, FALSE)}

\* Any writable configuration file, no blockers.
InitConfig ==
    /\ localAppData = TRUE
    /\ processes = {}
    /\ \E cfg \in {File(c, FALSE) : c \in Contents} :
           disk = [FreshDisk EXCEPT !.cfg = cfg]
    /\ pre = disk
    /\ last = Started

\* Any state of the two blocker paths, a few configuration files.
InitBlockers ==
    /\ localAppData = TRUE
    /\ processes = {}
    /\ \E cfg \in ConfigFixtures,
          pinfo \in EntryFixtures, upd \in EntryFixtures, download \in BOOLEAN :
           /\ Exists(upd) => download
           /\ disk = [FreshDisk EXCEPT !.cfg = cfg, !.pinfo = pinfo, !.upd = upd,
                                       !.download = download]
    /\ pre = disk
    /\ last = Started

\* LOCALAPPDATA is not set.
InitNoEnv ==
    /\ localAppData = FALSE
    /\ processes = {}
    /\ disk \in {FreshDisk,
                 [FreshDisk EXCEPT !.cfg = File(SENTINEL_LINE, FALSE),
                                   !.pinfo = File(<<>>, TRUE)]}
    /\ pre = disk
    /\ last = Started

-----------------------------------------------------------------------------
(* The commands.                                                           *)

Result(r) == [success |-> r.success, error |-> r.error, logs |-> r.logs]

ApplyProtectionWithOptions ==
    \E lock_config, create_blockers \in BOOLEAN, a1, a2 \in AttribOutcomes :
        \* an attrib command that is not run has no outcome to choose
        /\ ~create_blockers => (a1 = "set" /\ a2 = "set")
        /\ a1 = "spawnfail" => a2 = "set"
        /\ LET r == apply_protection_with_options(
                        localAppData, disk, lock_config, create_blockers, a1, a2)
           IN  /\ disk' = r.d
               /\ last' = [op |-> "apply",
                           in |-> [lock_config |-> lock_config,
                                   create_blockers |-> create_blockers,
                                   attrib |-> <<a1, a2>>],
                           out |-> Result(r)]
        /\ pre' = disk
        /\ UNCHANGED <<localAppData, processes>>

CheckProtectionStatus ==
    /\ last' = [op |-> "status", out |-> check_protection_status(localAppData, disk)]
    /\ pre' = disk
    /\ UNCHANGED <<localAppData, processes, disk>>

RemoveProtection ==
    /\ LET r == remove_protection(localAppData, disk)
       IN  /\ disk' = r.d
           /\ last' = [op |-> "remove", out |-> Result(r)]
    /\ pre' = disk
    /\ UNCHANGED <<localAppData, processes>>

DeleteVersions ==
    \E paths \in PathLists :
        /\ LET r == delete_versions(disk, paths)
           IN  /\ disk' = r.d
               /\ last' = [op |-> "delete", in |-> [paths |-> paths], out |-> Result(r)]
        /\ pre' = disk
        /\ UNCHANGED <<localAppData, processes>>

RunFullProtection ==
    \E versions_to_delete \in FullPathLists,
       clean, lock_config, create_blockers \in BOOLEAN,
       cache_outcome \in {"ok", "failed"}, a1, a2 \in AttribOutcomes :
        \* a collaborator that is not run has no outcome to choose
        /\ ~clean => cache_outcome = "ok"
        /\ ~create_blockers => (a1 = "set" /\ a2 = "set")
        /\ a1 = "spawnfail" => a2 = "set"
        /\ LET params == [versions_to_delete |-> versions_to_delete,
                          clean_cache |-> clean,
                          lock_config |-> lock_config,
                          create_blockers |-> create_blockers]
               r == run_full_protection(localAppData, processes, disk, params,
                                        cache_outcome, a1, a2)
           IN  /\ disk' = r.d
               /\ last' = [op |-> "full",
                           in |-> [params |-> params, cache_outcome |-> cache_outcome,
                                   attrib |-> <<a1, a2>>],
                           out |-> [success |-> r.success, error |-> r.error,
                                    logs |-> r.logs, stages |-> r.stages]]
        /\ pre' = disk
        /\ UNCHANGED <<localAppData, processes>>

SwitchVersion ==
    \E target_path \in VersionPaths \cup {<<"nonexistent", "9.9.9.9">>} :
        /\ LET r == switch_version(localAppData, disk, target_path)
           IN  /\ disk' = r.d
               /\ last' = [op |-> "switch", in |-> [target_path |-> target_path],
                           out |-> [success |-> r.success, message |-> r.message,
                                    logs |-> r.logs]]
        /\ pre' = disk
        /\ UNCHANGED <<localAppData, processes>>

NextProtect ==
    \/ ApplyProtectionWithOptions
    \/ CheckProtectionStatus
    \/ RemoveProtection

InitProtect == InitConfig \/ InitBlockers \/ InitNoEnv

SpecProtect == InitProtect /\ [][NextProtect]_vars

\* Any state of the version directories.
InitDirs ==
    /\ localAppData = TRUE
    /\ processes = {}
    /\ \E dirs \in [VersionPaths -> DirFixtures] : disk = [FreshDisk EXCEPT !.dirs = dirs]
    /\ pre = disk
    /\ last = Started

NextDelete == DeleteVersions

SpecDelete == InitDirs /\ [][NextDelete]_vars

\* The states the full sequence starts in: the application running or not,
\* version directories absent, deletable and locked, a configuration file that can and one
\* that cannot be written, ProductInfo.xml absent or a directory.
InitSequence ==
    /\ localAppData = TRUE
    /\ processes \in {{}, {"explorer.exe"}, {"CapCut"}, {"CapCut.exe", "explorer.exe"}}
    /\ \E dirs \in [VersionPaths -> {AbsentDir, PlainDir, LockedDir}],
          cfg \in ConfigFixtures, pinfo \in {NoEntry, Dir(TRUE)} :
           disk = [FreshDisk EXCEPT !.dirs = dirs, !.cfg = cfg, !.pinfo = pinfo]
    /\ pre = disk
    /\ last = Started

\* One run of the sequence from each of these states.
NextSequence == last = Started /\ RunFullProtection

SpecSequence == InitSequence /\ [][NextSequence]_vars

\* The states a version switch starts in.
InitSwitch ==
    /\ localAppData \in BOOLEAN
    /\ processes = {}
    /\ \E dirs \in [VersionPaths -> {AbsentDir, PlainDir}],
          cfg \in ConfigFixtures \cup {Dir(FALSE)}, pinfo \in EntryFixtures :
           disk = [FreshDisk EXCEPT !.dirs = dirs, !.cfg = cfg, !.pinfo = pinfo]
    /\ pre = disk
    /\ last = Started

NextSwitch == SwitchVersion

SpecSwitch == InitSwitch /\ [][NextSwitch]_vars

\* The states protection and version switches start in together: a few
\* configuration files, ProductInfo.xml and update.exe absent, a file with
\* text or a directory.
InitGuard ==
    /\ localAppData = TRUE
    /\ processes = {}
    /\ \E cfg \in ConfigFixtures,
          pinfo \in {NoEntry, File(<<BAK_TEXT>>, FALSE), Dir(FALSE)},
          upd \in {NoEntry, File(<<BAK_TEXT>>, FALSE)} :
           disk = [FreshDisk EXCEPT !.cfg = cfg, !.pinfo = pinfo, !.upd = upd,
                                    !.download = Exists(upd)]
    /\ pre = disk
    /\ last = Started

NextGuard ==
    \/ ApplyProtectionWithOptions
    \/ SwitchVersion
    \/ RemoveProtection
    \/ CheckProtectionStatus

SpecGuard == InitGuard /\ [][NextGuard]_vars

-----------------------------------------------------------------------------
(* Properties of apply, remove and status (SpecProtect).                   *)

\* The last command was apply with both options, it returned success and
\* every attrib command did its work.
AppliedBoth(l) ==
    /\ l.op = "apply"
    /\ l.in.lock_config /\ l.in.create_blockers
    /\ l.in.attrib = <<"set", "set">>
    /\ l.out.success

\* C1: idempotence of apply.  With LOCALAPPDATA set, an apply with lock_config
\* and create_blockers that follows such an apply leaves the disk as the first
\* one left it: the same bytes in configure.ini, both blockers empty and
\* read-only.
C1_ApplyIdempotent ==
    [][(AppliedBoth(last) /\ AppliedBoth(last'))
         => /\ disk' = disk
            /\ IsBlocker(disk'.pinfo) /\ IsBlocker(disk'.upd)]_vars

AllFalse == [is_protected |-> FALSE, config_locked |-> FALSE, blockers_exist |-> FALSE]

\* C2: round trip.  After an apply with both options that returned success,
\* remove leaves a disk on which status returns false in its three fields.
C2_ApplyRemoveRoundTrip ==
    [][(AppliedBoth(last) /\ last'.op = "remove")
         => check_protection_status(localAppData, disk') = AllFalse]_vars

\* The entry exists, has size zero and is read-only.
ZeroSizeReadOnly(e) == e.kind \in {"file", "dir"} /\ e.content = <<>> /\ e.ro = TRUE

\* The entry is a file of UTF-8 text in which "last_version=1.0.0.0" occurs.
TextHoldsSentinel(e) ==
    /\ e.kind = "file"
    /\ \A i \in 1..Len(e.content) : e.content[i] # INVALID_UTF8
    /\ \E i \in 1..(Len(e.content) - 1) :
           e.content[i] = KEY /\ e.content[i + 1] = EQ_SENTINEL

\* C3: status fidelity.  With LOCALAPPDATA set, status returns blockers_exist
\* iff ProductInfo.xml or update.exe exists with size zero and read-only,
\* config_locked iff configure.ini exists and its text holds the sentinel, and
\* is_protected as the disjunction of the two.
C3_StatusFidelity ==
    (last.op = "status" /\ localAppData)
      => /\ last.out.blockers_exist
              = (ZeroSizeReadOnly(disk.pinfo) \/ ZeroSizeReadOnly(disk.upd))
         /\ last.out.config_locked = TextHoldsSentinel(disk.cfg)
         /\ last.out.is_protected = (last.out.config_locked \/ last.out.blockers_exist)

\* Status was asked on a disk where only update.exe is a blocker,
\* ProductInfo.xml being a non-empty read-only file, and the configuration is
\* not locked.
C3_Witness ==
    /\ last.op = "status" /\ localAppData
    /\ disk.pinfo = File(<<BAK_TEXT>>, TRUE)
    /\ disk.upd = File(<<>>, TRUE)
    /\ disk.cfg = File(<<BAK_TEXT, LF, KEY, BAK_TEXT>>, FALSE)
    /\ last.out = [is_protected |-> TRUE, config_locked |-> FALSE, blockers_exist |-> TRUE]

\* The line is a line of the key last_version: trimmed, it is the key alone or
\* the key followed by "=" or by white space.
IsLastVersionLine(line) ==
    LET t == Trim(line)
    IN  /\ t # <<>>
        /\ t[1] = KEY
        /\ Len(t) >= 2 => t[2] \in {EQ_SENTINEL, "=", SP, CR}

\* The number of lines of the key last_version among ls.
RECURSIVE KeyCount(_)
KeyCount(ls) ==
    IF ls = <<>> THEN 0
    ELSE (IF IsLastVersionLine(Head(ls)) THEN 1 ELSE 0) + KeyCount(Tail(ls))

\* The lines of ls that are not lines of the key last_version and are not
\* blank, trimmed, in their order.
RECURSIVE OtherLines(_)
OtherLines(ls) ==
    IF ls = <<>> THEN <<>>
    ELSE (IF IsLastVersionLine(Head(ls)) \/ Trim(Head(ls)) = <<>> THEN <<>>
          ELSE <<Trim(Head(ls))>>)
         \o OtherLines(Tail(ls))

\* The last command was an apply whose lock of the configuration succeeded.
LockedConfig ==
    /\ last.op = "apply" /\ last.in.lock_config
    /\ Len(last.out.logs) >= 2
    /\ last.out.logs[2] = <<"[OK] Configuration locked">>

\* The last command was a remove that rewrote configure.ini.
UnlockedConfig ==
    /\ last.op = "remove"
    /\ \E i \in 1..Len(last.out.logs) : last.out.logs[i] = <<"[OK] configure.ini reset">>

\* C4: after the lock upsert the key last_version appears at most once in
\* configure.ini, whatever the file held before, and it is the last line when
\* the file held no line of the key before.
C4_KeyAtMostOnce ==
    LockedConfig
      => LET before == Lines(pre.cfg.content)
             after == Lines(disk.cfg.content)
         IN  /\ KeyCount(after) <= 1
             /\ KeyCount(before) = 0
                  => (after # <<>> /\ after[Len(after)] = SENTINEL_LINE)

\* C5: configuration preservation.  The lock upsert and the unlock removal
\* leave every line that is not a line of the key last_version in the file,
\* unchanged and in the same order, whatever the file held before (also a line
\* of a key whose name begins with last_version, also a file that cannot be
\* read).  Blank lines and the white space around a line are not compared.
C5_OtherLinesPreserved ==
    (LockedConfig \/ UnlockedConfig)
      => OtherLines(Lines(disk.cfg.content)) = OtherLines(Lines(pre.cfg.content))

-----------------------------------------------------------------------------
(* Properties of delete_versions (SpecDelete).                             *)

\* The deletion of the i-th path of the list fails on the directories dirs:
\* the directory is absent or locked, or the list named it before.
FailsAt(dirs, paths, i) ==
    \/ ~dirs[paths[i]].exists
    \/ dirs[paths[i]].locked
    \/ \E j \in 1..(i - 1) : paths[j] = paths[i]

DeleteFails(dirs, paths) == \E i \in 1..Len(paths) : FailsAt(dirs, paths, i)

\* C6: partial-failure short-circuit of delete_versions.  The call fails iff
\* the deletion of some path fails; it then stops at the first such path, the
\* k-th: the log is the k lines "Deleting: <name>" of the first k paths and
\* nothing else, the directories before the k-th are gone, and no directory
\* the first k paths do not name is touched, nor anything else on the disk.
C6_DeleteShortCircuit ==
    last.op = "delete"
      => LET paths == last.in.paths
             logs == last.out.logs
             k == Len(logs)
         IN  /\ last.out.success = ~DeleteFails(pre.dirs, paths)
             /\ ~last.out.success
                  => /\ k \in 1..Len(paths)
                     /\ FailsAt(pre.dirs, paths, k)
                     /\ \A i \in 1..(k - 1) : ~FailsAt(pre.dirs, paths, i)
                     /\ \A i \in 1..k :
                            logs[i] = <<"Deleting: {}", paths[i][Len(paths[i])]>>
                     /\ \A i \in 1..(k - 1) : ~disk.dirs[paths[i]].exists
                     /\ \A p \in VersionPaths :
                            (\A i \in 1..k : paths[i] # p) => disk.dirs[p] = pre.dirs[p]
                     /\ [disk EXCEPT !.dirs = pre.dirs] = pre

\* Three different paths were given, the second could not be deleted: the
\* first is gone, the third is still there, the log has two lines.
C6_Witness ==
    /\ last.op = "delete" /\ ~last.out.success
    /\ Len(last.in.paths) = 3
    /\ Cardinality({last.in.paths[i] : i \in 1..3}) = 3
    /\ Len(last.out.logs) = 2
    /\ pre.dirs[last.in.paths[1]].exists /\ ~disk.dirs[last.in.paths[1]].exists
    /\ pre.dirs[last.in.paths[2]].locked
    /\ pre.dirs[last.in.paths[3]] = [exists |-> TRUE, ro |-> TRUE, locked |-> FALSE]
    /\ disk.dirs[last.in.paths[3]] = pre.dirs[last.in.paths[3]]

-----------------------------------------------------------------------------
(* Properties of run_full_protection (SpecSequence).                       *)

\* A process named CapCut or CapCut.exe runs.
Running == processes \cap {"CapCut", "CapCut.exe"} # {}

\* C7: precondition gate.  When the application runs, run_full_protection
\* returns failure, its log is the one line of the precondition check, and the
\* disk is as it was.
C7_PreconditionGate ==
    (last.op = "full" /\ Running)
      => /\ ~last.out.success
         /\ last.out.logs = <<<<"Checking system state...">>>>
         /\ disk = pre

\* The application ran while the sequence was asked to delete a directory it
\* could have deleted, to clean the cache and to protect.
C7_Witness ==
    /\ last.op = "full" /\ Running
    /\ Len(last.in.params.versions_to_delete) = 1
    /\ pre.dirs[last.in.params.versions_to_delete[1]] = PlainDir
    /\ last.in.params.clean_cache
    /\ last.in.params.lock_config /\ last.in.params.create_blockers
    /\ ~last.out.success

\* configure.ini cannot be written: it is read-only or a directory.
NotWritable(e) == e.kind = "dir" \/ (e.kind = "file" /\ e.ro)

\* The protect stage of the last run is asked for.
ProtectAsked == last.in.params.lock_config \/ last.in.params.create_blockers

\* The protect stage of the last run, if it is reached, fails: LOCALAPPDATA is
\* not set, the configuration cannot be written, or attrib cannot be started.
ProtectFails ==
    /\ ProtectAsked
    /\ \/ ~localAppData
       \/ last.in.params.lock_config /\ NotWritable(pre.cfg)
       \/ last.in.params.create_blockers
            /\ (last.in.attrib[1] = "spawnfail" \/ last.in.attrib[2] = "spawnfail")

\* C8: stage order and short-circuit.  The stages run in the order check,
\* delete, cache, protect; a failed delete stage ends the run before the cache
\* is cleaned and before configure.ini or a blocker is written; the run
\* succeeds iff the application does not run, the delete stage succeeds and the
\* protect stage, when asked for, succeeds, whatever the cache cleaner did.
C8_StageOrder ==
    last.op = "full"
      => LET params == last.in.params
             failed == DeleteFails(pre.dirs, params.versions_to_delete)
         IN  /\ last.out.stages
                  = IF Running THEN <<"check">>
                    ELSE IF failed THEN <<"check", "delete">>
                    ELSE <<"check", "delete">>
                         \o (IF params.clean_cache THEN <<"cache">> ELSE <<>>)
                         \o (IF ProtectAsked THEN <<"protect">> ELSE <<>>)
             /\ (~Running /\ failed)
                  => /\ ~last.out.success
                     /\ [disk EXCEPT !.dirs = pre.dirs] = pre
             /\ last.out.success = (~Running /\ ~failed /\ ~ProtectFails)

\* The delete stage failed in a run that was asked to clean the cache and to
\* lock the configuration: the cache is not cleaned, there is no configure.ini.
C8_Witness ==
    /\ last.op = "full" /\ ~Running
    /\ last.out.stages = <<"check", "delete">>
    /\ last.in.params.clean_cache /\ last.in.params.lock_config
    /\ last.in.params.create_blockers
    /\ ~last.out.success
    /\ pre.cfg = NoEntry /\ disk.cfg = NoEntry /\ disk.pinfo = NoEntry
    /\ disk.cache = TRUE

\* C9: cumulative log.  On every return path the log of run_full_protection is
\* the lines of the stages that ran, stage after stage, each stage's lines in
\* their order: the check, the log of delete_versions, the lines of the cache
\* stage, the log of the protect stage; a failed run returns them up to the
\* stage that failed, this one included.
C9_CumulativeLog ==
    last.op = "full"
      => LET params == last.in.params
             del == delete_versions(pre, params.versions_to_delete)
             cache == clean_cache(del.d, last.in.cache_outcome)
             prot == apply_protection_with_options(
                         localAppData, IF params.clean_cache THEN cache.d ELSE del.d,
                         params.lock_config, params.create_blockers,
                         last.in.attrib[1], last.in.attrib[2])
             check_lines == IF Running THEN <<<<"Checking system state...">>>>
                            ELSE <<<<"Checking system state...">>,
                                   <<"[OK] No running instances">>>>
             cache_lines == IF params.clean_cache
                            THEN <<<<"Cleaning cache directories...">>>> \o cache.logs
                            ELSE <<<<"Skipping cache cleaning (disabled)">>>>
             protect_lines == IF ProtectAsked THEN prot.logs
                              ELSE <<<<"Skipping protection (all options disabled)">>>>
         IN  last.out.logs
               = IF Running THEN check_lines
                 ELSE IF ~del.success THEN check_lines \o del.logs
                 ELSE check_lines \o del.logs \o cache_lines \o protect_lines

\* A run failed in its protect stage after a deletion and a cache cleaning: the
\* log holds the lines of the four stages.
C9_Witness ==
    /\ last.op = "full" /\ ~last.out.success
    /\ last.out.stages = <<"check", "delete", "cache", "protect">>
    /\ Len(last.in.params.versions_to_delete) = 1
    /\ last.in.params.lock_config /\ last.in.params.create_blockers
    /\ last.in.attrib = <<"set", "spawnfail">>
    /\ Len(last.out.logs) = 9
    /\ last.out.logs[3] = <<"Deleting: {}", "3.1.0.100">>
    /\ last.out.logs[9] = <<"Creating blockers...">>

-----------------------------------------------------------------------------
(* Properties of switch_version (SpecSwitch).                              *)

\* C10: a switch to a target path that does not exist returns failure with the
\* message "Target version not found" and leaves the disk as it was:
\* ProductInfo.xml and configure.ini keep their contents and their read-only
\* attributes.
C10_MissingTarget ==
    (last.op = "switch"
       /\ ~(last.in.target_path \in DOMAIN pre.dirs
              /\ pre.dirs[last.in.target_path].exists))
      => /\ ~last.out.success
         /\ last.out.message = <<"Target version not found">>
         /\ disk = pre

\* A switch to a missing version directory was asked while ProductInfo.xml was
\* a blocker and configure.ini locked and read-only.
C10_Witness ==
    /\ last.op = "switch"
    /\ last.in.target_path = <<"Apps", "3.1.0.100">>
    /\ ~pre.dirs[last.in.target_path].exists
    /\ localAppData
    /\ pre.pinfo = File(<<>>, TRUE)
    /\ pre.cfg = File(SENTINEL_LINE, TRUE)
    /\ ~last.out.success

\* The text switch_version writes to ProductInfo.xml for a target path.
PointerText(target_path) ==
    <<"<ProductInfo><InstallPath>">> \o target_path
        \o <<"CapCut.exe", "</InstallPath><Version>", target_path[Len(target_path)],
             "</Version></ProductInfo>">>

\* The i-th line of a log begins with the text t.
LogHas(logs, t) == \E i \in 1..Len(logs) : logs[i][1] = t

\* C11: a switch to an existing target returns success whatever its writes
\* do.  With the installation resolved both writes are attempted, each on its
\* own: the write of ProductInfo.xml fails exactly on a directory, the write of
\* configure.ini exactly on a directory; a failed write is logged and leaves
\* its file as it was, the other file is written all the same.
C11_SwitchAlwaysSucceeds ==
    (last.op = "switch" /\ last.in.target_path \in DOMAIN pre.dirs
       /\ pre.dirs[last.in.target_path].exists)
      => /\ last.out.success
         /\ localAppData
              => /\ LogHas(last.out.logs, "Updating ProductInfo at: {:?}")
                 /\ LogHas(last.out.logs, "Updating configure.ini at: {:?}")
                 /\ IF pre.pinfo.kind = "dir"
                    THEN /\ disk.pinfo = [pre.pinfo EXCEPT !.ro = FALSE]
                         /\ LogHas(last.out.logs, "[!] Failed to write ProductInfo.xml: {}")
                    ELSE /\ disk.pinfo = File(PointerText(last.in.target_path), FALSE)
                         /\ LogHas(last.out.logs, "[OK] Updated ProductInfo.xml")
                 /\ IF pre.cfg.kind = "dir"
                    THEN /\ disk.cfg = [pre.cfg EXCEPT !.ro = FALSE]
                         /\ LogHas(last.out.logs, "[!] Failed to write configure.ini: {}")
                    ELSE /\ disk.cfg.kind = "file"
                         /\ disk.cfg.content[1] = "[Configure]"
                         /\ LogHas(last.out.logs, "[OK] Updated configure.ini")

\* The write of ProductInfo.xml failed, the write of configure.ini was made,
\* and the switch returned success.
C11_Witness ==
    /\ last.op = "switch" /\ last.out.success /\ localAppData
    /\ pre.pinfo = Dir(TRUE)
    /\ pre.cfg = File(SENTINEL_LINE, TRUE)
    /\ LogHas(last.out.logs, "[!] Failed to write ProductInfo.xml: {}")
    /\ disk.cfg.content[1] = "[Configure]"

-----------------------------------------------------------------------------
(* Further properties of apply, remove and status (SpecProtect).           *)

\* What a blocker removal leaves of an entry: a file is deleted, read-only or
\* not; a directory stays, without the attribute; an absent path stays absent.
AfterRemoval(e) ==
    IF e.kind = "file" THEN NoEntry
    ELSE IF e.kind = "dir" THEN Dir(FALSE)
    ELSE e

\* The text can be read and the file written.
ReadableWritable(e) ==
    /\ e.kind = "file" /\ ~e.ro
    /\ \A i \in 1..Len(e.content) : e.content[i] # INVALID_UTF8

\* C12: with LOCALAPPDATA set remove_protection returns success in every
\* state of the three files.  Each blocker path is dealt with on its own: a
\* file is deleted, a path that cannot be deleted (a directory) is logged as
\* "[!] Could not remove ..." and the other blocker is removed all the same;
\* a configure.ini that can be read and written then holds no line that
\* starts with last_version, one that cannot be written is left and logged.
C12_RemoveBestEffort ==
    (last.op = "remove" /\ localAppData)
      => /\ last.out.success
         /\ disk.pinfo = AfterRemoval(pre.pinfo)
         /\ disk.upd = AfterRemoval(pre.upd)
         /\ pre.pinfo.kind = "dir"
              => LogHas(last.out.logs, "[!] Could not remove ProductInfo.xml: {}")
         /\ pre.upd.kind = "dir"
              => LogHas(last.out.logs, "[!] Could not remove update.exe: {}")
         /\ ReadableWritable(pre.cfg)
              => /\ disk.cfg.kind = "file"
                 /\ \A i \in 1..Len(Lines(disk.cfg.content)) :
                        ~StartsWith(Trim(Lines(disk.cfg.content)[i]), <<KEY>>)
         /\ (pre.cfg.kind = "file" /\ pre.cfg.ro)
              => /\ disk.cfg = pre.cfg
                 /\ LogHas(last.out.logs, "[!] Could not reset configure.ini: {}")
         /\ last.out.logs[Len(last.out.logs)]
              = <<"[OK] Protection removed - CapCut can now auto-update">>

\* ProductInfo.xml was a directory and could not be removed: the update.exe
\* blocker is gone and the key line is stripped all the same.
C12_Witness ==
    /\ last.op = "remove" /\ localAppData /\ last.out.success
    /\ pre.pinfo = Dir(TRUE) /\ disk.pinfo = Dir(FALSE)
    /\ pre.upd = File(<<>>, TRUE) /\ disk.upd = NoEntry
    /\ pre.cfg = File(<<BAK_TEXT, LF, KEY, BAK_TEXT>>, FALSE)
    /\ disk.cfg = File(<<BAK_TEXT>>, FALSE)
    /\ LogHas(last.out.logs, "[!] Could not remove ProductInfo.xml: {}")

\* C13: without LOCALAPPDATA apply and remove return failure with the error
\* "Failed to get LOCALAPPDATA" and an empty log and leave every file as it
\* was; status returns false in its three fields.
C13_UnresolvedRoot ==
    ~localAppData
      => /\ last.op \in {"apply", "remove"}
              => /\ ~last.out.success
                 /\ last.out.error = <<"Failed to get LOCALAPPDATA">>
                 /\ last.out.logs = <<>>
                 /\ disk = pre
         /\ last.op = "status"
              => /\ last.out = [is_protected |-> FALSE, config_locked |-> FALSE,
                                blockers_exist |-> FALSE]
                 /\ disk = pre

\* Without LOCALAPPDATA apply with both options was asked on a disk without
\* files: it failed and there is still no file.
C13_Witness ==
    /\ ~localAppData
    /\ last.op = "apply" /\ last.in.lock_config /\ last.in.create_blockers
    /\ ~last.out.success /\ last.out.logs = <<>>
    /\ pre.cfg = NoEntry /\ disk.cfg = NoEntry /\ disk.pinfo = NoEntry
    /\ disk.upd = NoEntry /\ ~disk.download

\* The log lines of the configuration half of an apply that got past it.
ConfigLines(lock_config) ==
    IF lock_config THEN <<<<"Modifying config...">>, <<"[OK] Configuration locked">>>>
    ELSE <<<<"Skipping config lock (disabled)">>>>

\* The configuration half of the last apply has left its effect: the file is
\* there and holds the sentinel line.
ConfigEffectRemains ==
    last.in.lock_config
      => /\ disk.cfg.kind = "file"
         /\ Contains(disk.cfg.content, SENTINEL_LINE)

\* C15: the sub-steps of apply run in the order configuration lock,
\* ProductInfo.xml blocker, update.exe blocker.  When the lock fails nothing
\* else is done and the log is its one line; when the first blocker fails the
\* lock stays made and update.exe and its directory are not touched; when the
\* second blocker fails the lock and the first blocker stay made; in each case
\* the result is failure with an error and the log up to the failing sub-step.
\* Otherwise apply returns success.
C15_ApplyStopsAtFirstFailure ==
    (last.op = "apply" /\ localAppData)
      => LET lock_config == last.in.lock_config
             create_blockers == last.in.create_blockers
             a1 == last.in.attrib[1]
             a2 == last.in.attrib[2]
             lock_fails == lock_config /\ NotWritable(pre.cfg)
         IN  IF lock_fails
             THEN /\ ~last.out.success /\ last.out.error # <<>>
                  /\ last.out.logs = <<<<"Modifying config...">>>>
                  /\ disk = pre
             ELSE IF create_blockers /\ a1 = "spawnfail"
             THEN /\ ~last.out.success /\ last.out.error # <<>>
                  /\ last.out.logs = ConfigLines(lock_config) \o <<<<"Creating blockers...">>>>
                  /\ ConfigEffectRemains
                  /\ disk.upd = pre.upd /\ disk.download = pre.download
             ELSE IF create_blockers /\ a2 = "spawnfail"
             THEN /\ ~last.out.success /\ last.out.error # <<>>
                  /\ last.out.logs = ConfigLines(lock_config) \o <<<<"Creating blockers...">>>>
                  /\ ConfigEffectRemains
                  /\ disk.pinfo = File(<<>>, a1 = "set")
             ELSE /\ last.out.success /\ last.out.error = <<>>
                  /\ ConfigEffectRemains
                  /\ ~lock_config => disk.cfg = pre.cfg
                  /\ last.out.logs
                       = ConfigLines(lock_config)
                         \o (IF create_blockers
                             THEN <<<<"Creating blockers...">>, <<"[OK] Update blockers created">>>>
                             ELSE <<<<"Skipping blocker creation (disabled)">>>>)

\* The update.exe blocker failed after the lock and the ProductInfo.xml
\* blocker were made: both are on the disk, the log has three lines.
C15_Witness ==
    /\ last.op = "apply" /\ localAppData
    /\ last.in.lock_config /\ last.in.create_blockers
    /\ last.in.attrib = <<"set", "spawnfail">>
    /\ ~last.out.success
    /\ pre.cfg = NoEntry /\ pre.pinfo = NoEntry
    /\ disk.cfg = File(SENTINEL_LINE, FALSE)
    /\ disk.pinfo = File(<<>>, TRUE)
    /\ Len(last.out.logs) = 3

\* C16: create_readonly reports an error whenever one of its steps fails, the
\* setting of the read-only attribute included: an apply that makes the
\* blockers and returns success had every attrib command set the attribute,
\* and leaves two empty, read-only files.
C16_BlockerErrorReported ==
    (last.op = "apply" /\ localAppData /\ last.in.create_blockers /\ last.out.success)
      => /\ last.in.attrib = <<"set", "set">>
         /\ disk.pinfo = File(<<>>, TRUE)
         /\ disk.upd = File(<<>>, TRUE)

\* C18: a successful apply is visible to status: right after an apply that
\* returned success, status reports config_locked if the lock was asked,
\* blockers_exist if the blockers were asked, is_protected if either was.
C18_ApplyVisibleToStatus ==
    (last.op = "apply" /\ last.out.success)
      => LET status == check_protection_status(localAppData, disk)
         IN  /\ last.in.lock_config => status.config_locked
             /\ last.in.create_blockers => status.blockers_exist
             /\ (last.in.lock_config \/ last.in.create_blockers) => status.is_protected

-----------------------------------------------------------------------------
(* A further property of delete_versions (SpecDelete).                     *)

\* C14: delete_versions of the empty list returns success, its log is the one
\* line "[OK] No versions to delete", and the disk is as it was.
C14_EmptyList ==
    (last.op = "delete" /\ last.in.paths = <<>>)
      => /\ last.out.success
         /\ last.out.error = <<>>
         /\ last.out.logs = <<<<"[OK] No versions to delete">>>>
         /\ disk = pre

\* The empty list was given while version directories were on the disk, one
\* of them read-only.
C14_Witness ==
    /\ last.op = "delete" /\ last.in.paths = <<>>
    /\ last.out.success
    /\ \E p \in VersionPaths : disk.dirs[p] = [exists |-> TRUE, ro |-> TRUE, locked |-> FALSE]
    /\ \E p \in VersionPaths : disk.dirs[p] = PlainDir

-----------------------------------------------------------------------------
(* Further properties of switch_version (SpecSwitch).                      *)

\* C17: a switch to an existing target with the installation resolved writes
\* configure.ini whenever the path is not a directory, read-only or not; the
\* file then is exactly the line "[Configure]" and the line
\* "last_version=<label>", each ended by CR LF, the label being the last
\* component of the target path; nothing of the former text is left and the
\* file is not read-only.
C17_SwitchReplacesConfig ==
    (last.op = "switch" /\ localAppData
       /\ last.in.target_path \in DOMAIN pre.dirs
       /\ pre.dirs[last.in.target_path].exists
       /\ pre.cfg.kind # "dir")
      => LET label == last.in.target_path[Len(last.in.target_path)]
         IN  /\ LogHas(last.out.logs, "[OK] Updated configure.ini")
             /\ disk.cfg.kind = "file" /\ ~disk.cfg.ro
             /\ disk.cfg.content
                  = <<"[Configure]", CR, LF, KEY>> \o EqVersion(label) \o <<CR, LF>>
             /\ Lines(disk.cfg.content) = <<<<"[Configure]">>, <<KEY>> \o EqVersion(label)>>

\* A read-only configure.ini that held the sentinel line was replaced by the
\* section for version 3.1.0.100.
C17_Witness ==
    /\ last.op = "switch" /\ localAppData /\ last.out.success
    /\ last.in.target_path = <<"Apps", "3.1.0.100">>
    /\ pre.cfg = File(SENTINEL_LINE, TRUE)
    /\ disk.cfg = File(<<"[Configure]", CR, LF, KEY, "=", "3.1.0.100", CR, LF>>, FALSE)

-----------------------------------------------------------------------------
(* Properties of protection and version switches together (SpecGuard).     *)

\* The last command was a switch that wrote ProductInfo.xml and configure.ini.
SwitchedBoth(l) ==
    /\ l.op = "switch" /\ l.out.success
    /\ LogHas(l.out.logs, "[OK] Updated ProductInfo.xml")
    /\ LogHas(l.out.logs, "[OK] Updated configure.ini")

\* C19: remove_protection deletes whatever file is at ProductInfo.xml and at
\* update.exe, empty or not, read-only or not; after a switch that wrote
\* ProductInfo.xml the file holds the text of the pointer, and a remove that
\* follows deletes it: no ProductInfo.xml is left.
C19_RemoveDeletesPointer ==
    [][last'.op = "remove"
         => /\ disk.pinfo.kind = "file" => disk'.pinfo = NoEntry
            /\ disk.upd.kind = "file" => disk'.upd = NoEntry
            /\ SwitchedBoth(last)
                 => /\ disk.pinfo = File(PointerText(last.in.target_path), FALSE)
                    /\ disk'.pinfo = NoEntry]_vars

\* A remove found the pointer file of a switch at ProductInfo.xml, not empty
\* and not read-only, and deleted it.
C19_Witness ==
    /\ last.op = "remove" /\ last.out.success
    /\ pre.pinfo = File(PointerText(<<"Apps", "3.1.0.100">>), FALSE)
    /\ disk.pinfo = NoEntry
    /\ LogHas(last.out.logs, "[OK] ProductInfo.xml blocker removed")

\* The version label begins with the version of the sentinel, 1.0.0.0.
BeginsWithSentinelVersion(label) == label \in {"1.0.0.0", "1.0.0.05"}

\* What C20 says of a switch that follows an apply, in the step from the
\* state after the apply to the state after the switch.
AfterApplyAndSwitch ==
    LET status == check_protection_status(localAppData, disk')
        label == last'.in.target_path[Len(last'.in.target_path)]
    IN  /\ disk'.pinfo.kind = "file" /\ disk'.pinfo.content # <<>> /\ ~disk'.pinfo.ro
        /\ disk'.upd = disk.upd
        /\ status.blockers_exist /\ status.is_protected
        /\ status.config_locked = BeginsWithSentinelVersion(label)

\* C20: after an apply with both options that returned success and a switch
\* that follows it and makes its two writes, ProductInfo.xml is not empty and
\* not read-only, update.exe is as the apply left it, status reports
\* blockers_exist and is_protected, and it reports config_locked iff the label
\* of the target begins with 1.0.0.0.
C20_SwitchUndoesPart ==
    [][(last.op = "apply" /\ last.in.lock_config /\ last.in.create_blockers
          /\ last.out.success /\ SwitchedBoth(last'))
         => AfterApplyAndSwitch]_vars

\* The same with every attrib command of the apply having set the attribute.
SwitchUndoesPartWhenAttribSet ==
    [][(AppliedBoth(last) /\ SwitchedBoth(last')) => AfterApplyAndSwitch]_vars

====
